---- MODULE Spec2Model ----
(***************************************************************************)
(* A model of qit (src/src/main.rs): one run of the process, from its      *)
(* argument list to its exit.  The external git processes, the repository  *)
(* status query and the environment are the run's nondeterministic inputs. *)
(*                                                                         *)
(* Text is a sequence of atoms.  An atom is either one whitespace          *)
(* character (" ") or an indivisible run of non-whitespace characters      *)
(* ("fix", "--force", "(", a glyph).  Concatenation is \o, and trim        *)
(* removes whitespace atoms at both ends.                                  *)
(***************************************************************************)
EXTENDS Integers, Sequences, FiniteSets, TLC

VARIABLES
    argv,        \* the process arguments after the program name
    env,         \* the value of QIT_DISABLE_EMOJIS (an option of text)
    pc,          \* the position of the run in main and its handler
    matches,     \* what get_matches returned
    handler,     \* the match arm main took ("none" before it takes one)
    formatted,   \* commit's formatted message
    procs,       \* every spawn attempted so far, in order
    repoStatus,  \* the result of the repo_status call, when it was made
    result,      \* the Result the handler returned
    out,         \* lines printed on standard output
    err,         \* lines printed on standard error
    exitCode     \* the exit status of the process, -1 while it runs

vars == <<argv, env, pc, matches, handler, formatted, procs, repoStatus,
          result, out, err, exitCode>>

----------------------------------------------------------------------------
(* Bounds *)

MaxArgs == 2
MaxLen == 2
MaxPending == 3

----------------------------------------------------------------------------
(* Text *)

W(s) == <<s>>

None == [some |-> FALSE, v |-> <<>>]
Some(t) == [some |-> TRUE, v |-> t]

IsWhite(a) == a = " "

RECURSIVE TrimStart(_)
TrimStart(s) ==
    IF s # <<>> /\ IsWhite(Head(s)) THEN TrimStart(Tail(s)) ELSE s

RECURSIVE TrimEnd(_)
TrimEnd(s) ==
    IF s # <<>> /\ IsWhite(s[Len(s)]) THEN TrimEnd(SubSeq(s, 1, Len(s) - 1)) ELSE s

TrimNone(s) == s

Trim(s) == TrimEnd(TrimStart(s))

RECURSIVE SeqsUpTo(_, _)
SeqsUpTo(S, n) ==
    IF n = 0 THEN {<<>>}
    ELSE LET shorter == SeqsUpTo(S, n - 1)
         IN  shorter \cup {Append(s, x) : s \in shorter, x \in S}

----------------------------------------------------------------------------
(* The command line: the subcommands of the App and their arguments *)

CommitTypes ==
    {W("chore"), W("feature"), W("refactor"), W("fix"), W("test"),
     W("style"), W("doc"), W("deps"), W("deploy"), W("wip")}

SubcommandOfWithStatus(tok) ==
    CASE tok \in {W("commit"), W("c")} -> "commit"
      [] tok \in {W("push"), W("p")}   -> "push"
      [] tok \in {W("undo"), W("u")}   -> "undo"
      [] tok \in {W("log"), W("l")}    -> "log"
      [] tok \in {W("switch"), W("s")} -> "switch"
      [] tok = W("status")             -> "status"
      [] OTHER                         -> ""

SubcommandOf(tok) ==
    CASE tok \in {W("commit"), W("c")} -> "commit"
      [] tok \in {W("push"), W("p")}   -> "push"
      [] tok \in {W("undo"), W("u")}   -> "undo"
      [] tok \in {W("log"), W("l")}    -> "log"
      [] tok \in {W("switch"), W("s")} -> "switch"
      [] OTHER                         -> ""

FlagTokens ==
    {W("-a"), W("--area"), W("-n"), W("--no-verify"),
     W("-f"), W("--force"), W("-s"), W("--short")}

IsFlagLike(tok) == tok \in FlagTokens

\* The argument of subcommand sub that the flag token names, "" when none.
FlagName(sub, tok) ==
    CASE sub = "commit" /\ tok \in {W("-a"), W("--area")}      -> "area"
      [] sub = "commit" /\ tok \in {W("-n"), W("--no-verify")} -> "no-verify"
      [] sub = "push"   /\ tok \in {W("-f"), W("--force")}     -> "force"
      [] sub = "log"    /\ tok \in {W("-s"), W("--short")}     -> "short"
      [] OTHER                                                 -> ""

TakesValue(arg) == arg = "area"

\* The required positional arguments of a subcommand, in index order.
Positionals(sub) ==
    CASE sub = "commit" -> <<"type", "message">>
      [] sub = "switch" -> <<"branch">>
      [] OTHER          -> <<>>

ValueArgs == {"type", "area", "message", "branch"}

NoMatches ==
    [usage |-> FALSE, sub |-> "", present |-> {}, npos |-> 0,
     vals |-> [a \in ValueArgs |-> None]]

UsageError == [NoMatches EXCEPT !.usage = TRUE]

RECURSIVE ParseArgs(_, _)
ParseArgs(toks, m) ==
    IF toks = <<>>
    THEN IF \A i \in 1..Len(Positionals(m.sub)) :
                m.vals[Positionals(m.sub)[i]].some
         THEN m
         ELSE UsageError
    ELSE LET t == Head(toks)
             a == FlagName(m.sub, t)
         IN  IF IsFlagLike(t)
             THEN IF a = "" \/ a \in m.present
                  THEN UsageError
                  ELSE IF TakesValue(a)
                  THEN IF Len(toks) < 2 \/ IsFlagLike(toks[2])
                       THEN UsageError
                       ELSE ParseArgs(Tail(Tail(toks)),
                                [m EXCEPT !.present = @ \cup {a},
                                          !.vals[a] = Some(toks[2])])
                  ELSE ParseArgs(Tail(toks), [m EXCEPT !.present = @ \cup {a}])
             ELSE IF m.npos >= Len(Positionals(m.sub))
                  THEN UsageError
                  ELSE LET p == Positionals(m.sub)[m.npos + 1]
                       IN  IF p = "type" /\ t \notin CommitTypes
                           THEN UsageError
                           ELSE ParseArgs(Tail(toks),
                                    [m EXCEPT !.present = @ \cup {p},
                                              !.npos = @ + 1,
                                              !.vals[p] = Some(t)])

get_matches(args) ==
    IF args = <<>>
    THEN NoMatches
    ELSE IF SubcommandOf(Head(args)) = ""
         THEN UsageError
         ELSE ParseArgs(Tail(args), [NoMatches EXCEPT !.sub = SubcommandOf(Head(args))])

value_of(m, name) == m.vals[name]
is_present(m, name) == name \in m.present

UsageExit == 2
FailExit == 1

----------------------------------------------------------------------------
(* commit: the formatted message *)

Emoji(type_) ==
    CASE type_ = W("chore")    -> W("<hammer>")
      [] type_ = W("feature")  -> W("<sparkles>")
      [] type_ = W("refactor") -> W("<recycle>")
      [] type_ = W("fix")      -> W("<bug>")
      [] type_ = W("test")     -> W("<check>")
      [] type_ = W("style")    -> W("<art>")
      [] type_ = W("doc")      -> W("<memo>")
      [] type_ = W("deps")     -> W("<package>")
      [] type_ = W("deploy")   -> W("<rocket>")
      [] type_ = W("wip")      -> W("<construction>")

\* The glyph after the QIT_DISABLE_EMOJIS toggle is applied.
EmojiOrNone(glyph, toggle) ==
    IF toggle.some /\ toggle.v = W("true") THEN <<>> ELSE glyph

Format(emoji, type_, area, message) ==
    IF area.some
    THEN emoji \o W(" ") \o type_ \o W("(") \o area.v \o W(")") \o W(":") \o W(" ") \o message
    ELSE emoji \o W(" ") \o type_ \o W(":") \o W(" ") \o message

Formatted(type_, area, message, toggle) ==
    Trim(Format(EmojiOrNone(Emoji(type_), toggle), type_, area, message))

----------------------------------------------------------------------------
(* Results, child processes and the repository status *)

NoResult == [kind |-> "none", msg |-> ""]
Ok == [kind |-> "ok", msg |-> ""]
Err(m) == [kind |-> "err", msg |-> m]

SpawnError == "git: could not be spawned"
WaitError == "git: could not be awaited"
UncommittedChanges == "There are uncommitted changes"

ExitCodes == {0, 1}

Child(args, quiet, state) ==
    [argv |-> args, quiet |-> quiet, state |-> state, code |-> -1]

\* wait() returned the exit status of the child spawned last.
ReapNot(ps, code) == ps

Reap(ps, code) ==
    [ps EXCEPT ![Len(ps)].state = "exited", ![Len(ps)].code = code]

NotQueried == [queried |-> FALSE, ok |-> FALSE, count |-> 0]

\* The values repo_status can return: Ok(count) or an error.
repo_status ==
    {[queried |-> TRUE, ok |-> TRUE, count |-> n] : n \in 0..MaxPending}
        \cup {[queried |-> TRUE, ok |-> FALSE, count |-> 0]}

PendingChangesStrict(st) == IF st.ok THEN st.count > 0 ELSE TRUE
PendingChangesAboveOne(st) == IF st.ok THEN st.count > 1 ELSE FALSE

PendingChanges(st) == IF st.ok THEN st.count > 0 ELSE FALSE

PushBlockedAlways(pending, force) == pending

PushBlocked(pending, force) == pending /\ ~force

PushArgs(force) ==
    IF force THEN <<W("push"), W("--force")>> ELSE <<W("push")>>

LogArgs(short) ==
    IF short THEN <<W("log"), W("--oneline")>> ELSE <<W("log")>>

AddArgs == <<W("add"), W("-A"), W("*"), W(".*")>>

CommitArgs(no_verify, msg) ==
    IF no_verify
    THEN <<W("commit"), W("--no-verify"), W("-am"), msg>>
    ELSE <<W("commit"), W("-am"), msg>>

UndoArgs == <<W("reset"), W("--soft"), W("HEAD~1")>>

CheckoutArgs(branch) == <<W("checkout"), branch>>

CreateArgs(branch) == <<W("checkout"), W("-b"), branch>>

\* switch_branch creates the branch when the checkout did not succeed.
FallbackNever(code) == FALSE

Fallback(code) == code # 0

----------------------------------------------------------------------------
(* The inputs of a run *)

Tokens ==
    {W("commit"), W("c"), W("push"), W("p"), W("undo"), W("u"), W("log"),
     W("l"), W("switch"), W("s"), W("status"), W("fix"), W("x")}
        \cup FlagTokens

\* Commit messages: the non-empty texts of at most MaxLen atoms.
Messages == SeqsUpTo({"a", " "}, MaxLen) \ {<<>>}

AreaOpts == {<<>>, <<W("-a"), W("cli")>>, <<W("--area"), W("cli")>>}

VerifyOpts == {<<>>, <<W("-n")>>, <<W("--no-verify")>>}

CommitArgvs ==
    {<<c, t>> \o a \o n \o <<m>> :
        c \in {W("commit"), W("c")}, t \in CommitTypes, a \in AreaOpts,
        n \in VerifyOpts, m \in Messages}

Argvs == SeqsUpTo(Tokens, MaxArgs) \cup CommitArgvs

EnvValues == {None, Some(W("true")), Some(W("false"))}

Init ==
    /\ argv \in Argvs
    /\ env \in EnvValues
    /\ pc = "start"
    /\ matches = NoMatches
    /\ handler = "none"
    /\ formatted = <<>>
    /\ procs = <<>>
    /\ repoStatus = NotQueried
    /\ result = NoResult
    /\ out = <<>>
    /\ err = <<>>
    /\ exitCode = -1

----------------------------------------------------------------------------
(* Steps shared by the handlers *)

\* Command::new("git")...spawn()? : the child runs, or the error is returned.
Spawn(here, args, quiet, next) ==
    /\ pc = here
    /\ \/ /\ procs' = Append(procs, Child(args, quiet, "running"))
          /\ pc' = next
          /\ UNCHANGED result
       \/ /\ procs' = Append(procs, Child(args, quiet, "failed"))
          /\ result' = Err(SpawnError)
          /\ pc' = "handle"
    /\ UNCHANGED <<argv, env, matches, handler, formatted, repoStatus, out, err, exitCode>>

\* .wait()? of a step that is not the handler's last: the exit status is dropped.
WaitThen(here, next) ==
    /\ pc = here
    /\ \/ /\ \E code \in ExitCodes : procs' = Reap(procs, code)
          /\ pc' = next
          /\ UNCHANGED result
       \/ /\ result' = Err(WaitError)
          /\ pc' = "handle"
          /\ UNCHANGED procs
    /\ UNCHANGED <<argv, env, matches, handler, formatted, repoStatus, out, err, exitCode>>

\* .wait()?; Ok(()) : the exit status is dropped and the handler returns Ok.
WaitLast(here) ==
    /\ pc = here
    /\ \/ /\ \E code \in ExitCodes : procs' = Reap(procs, code)
          /\ result' = Ok
       \/ /\ result' = Err(WaitError)
          /\ UNCHANGED procs
    /\ pc' = "handle"
    /\ UNCHANGED <<argv, env, matches, handler, formatted, repoStatus, out, err, exitCode>>

----------------------------------------------------------------------------
(* main and handle *)

Arm(sub) == IF sub = "" THEN "status" ELSE sub

main ==
    /\ pc = "start"
    /\ LET m == get_matches(argv)
       IN  /\ matches' = m
           /\ IF m.usage
              THEN /\ err' = Append(err, "error: usage")
                   /\ exitCode' = UsageExit
                   /\ pc' = "exited"
                   /\ UNCHANGED handler
              ELSE /\ handler' = Arm(m.sub)
                   /\ pc' = Arm(m.sub)
                   /\ UNCHANGED <<err, exitCode>>
    /\ UNCHANGED <<argv, env, formatted, procs, repoStatus, result, out>>

\* The `_` arm of main: println!("{}", repo_status()?); Ok(())
main_status ==
    /\ pc = "status"
    /\ \E st \in repo_status :
          /\ repoStatus' = st
          /\ IF st.ok
             THEN /\ out' = Append(out, st.count)
                  /\ exitCode' = 0
                  /\ UNCHANGED err
             ELSE /\ err' = Append(err, "Error: could not open the repository")
                  /\ exitCode' = FailExit
                  /\ UNCHANGED out
    /\ pc' = "exited"
    /\ UNCHANGED <<argv, env, matches, handler, formatted, procs, result>>

handle ==
    /\ pc = "handle"
    /\ IF result.kind = "ok"
       THEN /\ exitCode' = 0
            /\ UNCHANGED err
       ELSE /\ err' = err \o <<"<boom> Unable to run command:", result.msg>>
            /\ exitCode' = FailExit
    /\ pc' = "exited"
    /\ UNCHANGED <<argv, env, matches, handler, formatted, procs, repoStatus, result, out>>

----------------------------------------------------------------------------
(* commit *)

commit_format ==
    /\ pc = "commit"
    /\ formatted' = Formatted(value_of(matches, "type").v, value_of(matches, "area"),
                              value_of(matches, "message").v, env)
    /\ pc' = "commit_add_spawn"
    /\ UNCHANGED <<argv, env, matches, handler, procs, repoStatus, result, out, err, exitCode>>

commit_add_spawn == Spawn("commit_add_spawn", AddArgs, FALSE, "commit_add_wait")

commit_add_wait == WaitThen("commit_add_wait", "commit_spawn")

commit_spawn ==
    Spawn("commit_spawn", CommitArgs(is_present(matches, "no-verify"), formatted),
          FALSE, "commit_wait")

commit_wait == WaitLast("commit_wait")

----------------------------------------------------------------------------
(* log, push, undo *)

log_spawn == Spawn("log", LogArgs(is_present(matches, "short")), FALSE, "log_wait")

log_wait == WaitLast("log_wait")

push_check ==
    /\ pc = "push"
    /\ \E st \in repo_status :
          /\ repoStatus' = st
          /\ IF PushBlocked(PendingChanges(st), is_present(matches, "force"))
             THEN /\ result' = Err(UncommittedChanges)
                  /\ pc' = "handle"
             ELSE /\ pc' = "push_spawn"
                  /\ UNCHANGED result
    /\ UNCHANGED <<argv, env, matches, handler, formatted, procs, out, err, exitCode>>

push_spawn == Spawn("push_spawn", PushArgs(is_present(matches, "force")), FALSE, "push_wait")

push_wait == WaitLast("push_wait")

undo_spawn == Spawn("undo", UndoArgs, FALSE, "undo_wait")

undo_wait == WaitLast("undo_wait")

----------------------------------------------------------------------------
(* switch_branch *)

switch_checkout_spawn ==
    Spawn("switch", CheckoutArgs(value_of(matches, "branch").v), TRUE, "switch_checkout_wait")

switch_checkout_wait ==
    /\ pc = "switch_checkout_wait"
    /\ \/ /\ \E code \in ExitCodes :
                /\ procs' = Reap(procs, code)
                /\ IF Fallback(code)
                   THEN /\ pc' = "switch_create_spawn"
                        /\ UNCHANGED result
                   ELSE /\ result' = Ok
                        /\ pc' = "handle"
       \/ /\ result' = Err(WaitError)
          /\ pc' = "handle"
          /\ UNCHANGED procs
    /\ UNCHANGED <<argv, env, matches, handler, formatted, repoStatus, out, err, exitCode>>

switch_create_spawn ==
    Spawn("switch_create_spawn", CreateArgs(value_of(matches, "branch").v), FALSE,
          "switch_create_wait")

switch_create_wait == WaitLast("switch_create_wait")

----------------------------------------------------------------------------

Next ==
    \/ main
    \/ main_status
    \/ handle
    \/ commit_format
    \/ commit_add_spawn
    \/ commit_add_wait
    \/ commit_spawn
    \/ commit_wait
    \/ log_spawn
    \/ log_wait
    \/ push_check
    \/ push_spawn
    \/ push_wait
    \/ undo_spawn
    \/ undo_wait
    \/ switch_checkout_spawn
    \/ switch_checkout_wait
    \/ switch_create_spawn
    \/ switch_create_wait

Spec == Init /\ [][Next]_vars

----------------------------------------------------------------------------
(* Vocabulary of the properties *)

Force == is_present(matches, "force")

Spawned(p) == p.state # "failed"
Succeeded(p) == p.state = "exited" /\ p.code = 0
ExitedWithFailure(p) == p.state = "exited" /\ p.code # 0

IsPush(p) == p.argv[1] = W("push")
IsCommit(p) == p.argv[1] = W("commit")
IsAdd(p) == p.argv[1] = W("add")

Running == {i \in 1..Len(procs) : procs[i].state = "running"}

KnownNames ==
    {W("commit"), W("c"), W("push"), W("p"), W("undo"), W("u"),
     W("log"), W("l"), W("switch"), W("s")}

HandlerOf(tok) ==
    CASE tok \in {W("commit"), W("c")} -> "commit"
      [] tok \in {W("push"), W("p")}   -> "push"
      [] tok \in {W("undo"), W("u")}   -> "undo"
      [] tok \in {W("log"), W("l")}    -> "log"
      [] tok \in {W("switch"), W("s")} -> "switch"
      [] OTHER                         -> "none"

\* The run ended in a usage error: nothing was routed, queried or spawned.
UsageFailure ==
    /\ pc = "exited"
    /\ exitCode # 0
    /\ handler = "none"
    /\ procs = <<>>
    /\ ~repoStatus.queried
    /\ out = <<>>

WordCount(toks) == Cardinality({i \in 1..Len(toks) : toks[i] \notin FlagTokens})

RequiredWords(tok) ==
    CASE tok \in {W("commit"), W("c")} -> 2
      [] tok \in {W("switch"), W("s")} -> 1
      [] OTHER                         -> 0

MissingPositional ==
    /\ argv # <<>>
    /\ WordCount(Tail(argv)) < RequiredWords(argv[1])

SwitchState ==
    CASE pc \in {"switch", "switch_checkout_wait"}            -> "Attempting-Checkout"
      [] pc \in {"switch_create_spawn", "switch_create_wait"} -> "Creating-Branch"
      [] pc \in {"handle", "exited"} /\ result.kind = "ok"    -> "Done"
      [] pc \in {"handle", "exited"} /\ result.kind = "err"   -> "Failed"
      [] OTHER                                                -> "none"

\* The commit message the claim C9 describes, before any trimming.
ClaimedMessage ==
    LET ty   == value_of(matches, "type").v
        area == value_of(matches, "area")
        msg  == value_of(matches, "message").v
        body == IF area.some
                THEN ty \o <<"(">> \o area.v \o <<")", ":", " ">> \o msg
                ELSE ty \o <<":", " ">> \o msg
    IN  IF env = Some(W("true")) THEN body ELSE Emoji(ty) \o <<" ">> \o body

MessageEndsInText ==
    LET msg == value_of(matches, "message").v
    IN  msg # <<>> /\ msg[Len(msg)] # " "

----------------------------------------------------------------------------
(* Push *)

\* C1: push without force and with a pending-change count: the external push
\* is attempted exactly once, without the force flag, if and only if the
\* count is zero; for a count above zero push fails with the uncommitted
\* changes error and no process is ever spawned.
C1_PushOnlyWhenClean ==
    (handler = "push" /\ ~Force /\ repoStatus.queried /\ repoStatus.ok) =>
        IF repoStatus.count > 0
        THEN /\ procs = <<>>
             /\ result = Err(UncommittedChanges)
             /\ pc \in {"handle", "exited"}
             /\ pc = "exited" => exitCode # 0
        ELSE /\ result # Err(UncommittedChanges)
             /\ \/ pc = "push_spawn" /\ procs = <<>>
                \/ /\ pc \in {"push_wait", "handle", "exited"}
                   /\ Len(procs) = 1
                   /\ procs[1].argv = <<W("push")>>

C1_Witness ==
    /\ handler = "push" /\ ~Force
    /\ repoStatus.ok /\ repoStatus.count = MaxPending
    /\ pc = "exited" /\ exitCode = FailExit /\ procs = <<>>

\* C5: push with force: the external push is attempted exactly once, with the
\* force flag, for every pending-change count, and the uncommitted changes
\* error is never produced.
C5_ForcePushAlwaysInvoked ==
    (handler = "push" /\ Force /\ repoStatus.queried) =>
        /\ result # Err(UncommittedChanges)
        /\ \/ pc = "push_spawn" /\ procs = <<>>
           \/ /\ pc \in {"push_wait", "handle", "exited"}
              /\ Len(procs) = 1
              /\ procs[1].argv = <<W("push"), W("--force")>>

C5_Witness ==
    /\ handler = "push" /\ Force
    /\ repoStatus.ok /\ repoStatus.count = MaxPending
    /\ Len(procs) = 1 /\ procs[1].argv = <<W("push"), W("--force")>>
    /\ pc = "exited" /\ exitCode = 0

\* C6: when repo_status returns an error, push never fails with the
\* uncommitted changes error and goes on to attempt the external push, with
\* the force flag exactly when force was requested.
C6_StatusErrorIsPermissive ==
    (handler = "push" /\ repoStatus.queried /\ ~repoStatus.ok) =>
        /\ result # Err(UncommittedChanges)
        /\ \/ pc = "push_spawn" /\ procs = <<>>
           \/ /\ pc \in {"push_wait", "handle", "exited"}
              /\ Len(procs) = 1
              /\ procs[1].argv =
                    IF Force THEN <<W("push"), W("--force")>> ELSE <<W("push")>>

C6_Witness ==
    /\ handler = "push" /\ ~Force
    /\ repoStatus.queried /\ ~repoStatus.ok
    /\ Len(procs) = 1 /\ procs[1].argv = <<W("push")>> /\ Succeeded(procs[1])
    /\ pc = "exited"

----------------------------------------------------------------------------
(* Commit *)

\* C2: when the staging process (git add) cannot be spawned or exits with a
\* non-success status, git commit is never run and the error reaches the
\* caller (the process exits non-zero).
C2_NoCommitAfterFailedAdd ==
    (/\ handler = "commit"
     /\ procs # <<>>
     /\ (~Spawned(procs[1]) \/ ExitedWithFailure(procs[1]))) =>
        /\ Len(procs) = 1
        /\ pc = "exited" => result.kind = "err" /\ exitCode # 0

\* C9 (as the claim states it): the message given to git commit is the glyph
\* and one space (nothing when the toggle is "true") followed by exactly
\* "<type>: <message>" or "<type>(<area>): <message>", for every message.
C9_ExactMessage ==
    (handler = "commit" /\ pc # "commit") =>
        /\ formatted = ClaimedMessage
        /\ \A i \in 1..Len(procs) :
              IsCommit(procs[i]) => procs[i].argv[Len(procs[i].argv)] = formatted

\* C9 (amended): the message given to git commit is the claimed string with
\* its trailing whitespace removed; it is exactly the claimed string whenever
\* the message does not end in whitespace.
C9_MessageUpToTrailingWhitespace ==
    (handler = "commit" /\ pc # "commit") =>
        /\ formatted = TrimEnd(ClaimedMessage)
        /\ MessageEndsInText => formatted = ClaimedMessage
        /\ \A i \in 1..Len(procs) :
              IsCommit(procs[i]) => procs[i].argv[Len(procs[i].argv)] = formatted

C9_Witness ==
    /\ handler = "commit"
    /\ env = Some(W("true"))
    /\ Len(procs) = 2
    /\ procs[2].argv =
          <<W("commit"), W("-am"), <<"fix", "(", "cli", ")", ":", " ", "a">>>>

----------------------------------------------------------------------------
(* Exit status *)

\* C3: for commit, push, undo, log and switch, every failure of the action
\* (git not spawned, or git exiting with failure) is reported on the error
\* stream and ends the process with a non-zero status; the process exits 0
\* only when the action succeeded.
C3_FailureExitsNonZero ==
    (pc = "exited" /\ handler \in {"commit", "push", "undo", "log", "switch"}) =>
        LET fallback(i) == handler = "switch" /\ i = 1 /\ Len(procs) = 2
            failed == \/ result.kind = "err"
                      \/ \E i \in 1..Len(procs) :
                            ~fallback(i) /\ ~Succeeded(procs[i])
        IN  IF failed THEN exitCode # 0 /\ err # <<>> ELSE exitCode = 0

----------------------------------------------------------------------------
(* Switch *)

\* C4: switch reaches Done only through a successful checkout or, after a
\* failed checkout, through a successful create-and-checkout; a failed
\* create-and-checkout leads to Failed with the error propagated.
C4_DoneOnlyOnSuccess ==
    (handler = "switch" /\ SwitchState = "Done") =>
        \/ Len(procs) = 1 /\ Succeeded(procs[1])
        \/ Len(procs) = 2 /\ ~Succeeded(procs[1]) /\ Succeeded(procs[2])

\* C7 (as the claim states it): a finished switch is either one failing
\* checkout followed by one create-and-checkout, or one successful checkout
\* and no create.
C7_CheckoutThenCreate ==
    (handler = "switch" /\ pc = "exited") =>
        \/ /\ Len(procs) = 2
           /\ procs[1].argv = <<W("checkout"), value_of(matches, "branch").v>>
           /\ ~Succeeded(procs[1])
           /\ procs[2].argv = <<W("checkout"), W("-b"), value_of(matches, "branch").v>>
        \/ /\ Len(procs) = 1
           /\ procs[1].argv = <<W("checkout"), value_of(matches, "branch").v>>
           /\ Succeeded(procs[1])

\* C7 (amended): a finished switch attempted exactly one checkout; when that
\* checkout ran and exited with failure, exactly one create-and-checkout
\* attempt follows; when it exited with success, or could not be spawned or
\* awaited, no create is attempted, and in the latter case the error is
\* returned.
C7_CreateOnlyAfterFailedExit ==
    (handler = "switch" /\ pc = "exited") =>
        /\ Len(procs) >= 1
        /\ procs[1].argv = <<W("checkout"), value_of(matches, "branch").v>>
        /\ IF ExitedWithFailure(procs[1])
           THEN /\ Len(procs) = 2
                /\ procs[2].argv = <<W("checkout"), W("-b"), value_of(matches, "branch").v>>
           ELSE /\ Len(procs) = 1
                /\ ~Succeeded(procs[1]) => result.kind = "err" /\ exitCode # 0

C7_Witness ==
    /\ handler = "switch" /\ pc = "exited"
    /\ Len(procs) = 2
    /\ ExitedWithFailure(procs[1])
    /\ procs[2].argv = <<W("checkout"), W("-b"), W("x")>>

----------------------------------------------------------------------------
(* Dispatch *)

----------------------------------------------------------------------------
(* Sequencing *)

\* C10: at most one external process is alive at any time, and a step begins
\* only after the previous one has exited: every process spawned before the
\* latest one has exited, and the push process is spawned only after the
\* pending-change check has completed.
C10_OneProcessAtATime ==
    /\ Cardinality(Running) <= 1
    /\ \A i \in 1..Len(procs) - 1 : procs[i].state = "exited"
    /\ \A i \in 1..Len(procs) : IsPush(procs[i]) => repoStatus.queried
    /\ \A i \in 1..Len(procs) : IsCommit(procs[i]) => i = 2 /\ IsAdd(procs[1])

C10_Witness ==
    /\ handler = "commit"
    /\ Len(procs) = 2
    /\ IsAdd(procs[1]) /\ procs[1].state = "exited"
    /\ IsCommit(procs[2]) /\ procs[2].state = "running"

====
